---- MODULE Spec2Model ----
(***************************************************************************)
(* Model of src/src/App.tsx (SerraStats): the App component's state, its   *)
(* handlers (fetchData, handleSearch, handleReset, handleRefresh), the     *)
(* grouping / ranking functions and the three render branches.             *)
(*                                                                         *)
(* JavaScript strings that the code inspects character by character        *)
(* (userId through parseInt, flag names through property-key ordering,     *)
(* the error message through the template literal) are sequences of        *)
(* one-character strings.  `type` is only ever compared with ===, so it is *)
(* a plain string.  An optional value (drapeau?: string, string | null) is *)
(* a sequence of length 0 (absent) or 1 (present).                         *)
(***************************************************************************)
EXTENDS Integers, Sequences, FiniteSets, TLC

VARIABLES userId, type, drapeau, filteredStats, allStats, loading, error,
          countriesByCount, mounted, pending, startStats, lastOp, lastResponse

vars == <<userId, type, drapeau, filteredStats, allStats, loading, error,
          countriesByCount, mounted, pending, startStats, lastOp, lastResponse>>

----------------------------------------------------------------------------
(* Bounds *)

MaxRecords == 2
MaxRankRecords == 4
MaxInputLen == 3
MaxPending == 2

----------------------------------------------------------------------------
(* Values *)

None == <<>>
Some(v) == <<v>>

Arr(items) == [kind |-> "array", items |-> items]
Undefined == [kind |-> "undefined", items |-> <<>>]

NaN == [nan |-> TRUE, val |-> 0]
Num(n) == [nan |-> FALSE, val |-> n]

Digits == <<"0", "1", "2", "3", "4", "5", "6", "7", "8", "9">>

IsDigit(c) == \E d \in 1..10 : Digits[d] = c

DigitVal(c) == (CHOOSE d \in 1..10 : Digits[d] = c) - 1

IsDigits(s) == Len(s) > 0 /\ \A i \in 1..Len(s) : IsDigit(s[i])

RECURSIVE DigitsVal(_)
DigitsVal(s) ==
    IF Len(s) = 0 THEN 0
    ELSE 10 * DigitsVal(SubSeq(s, 1, Len(s) - 1)) + DigitVal(s[Len(s)])

RECURSIVE Decimal(_)
Decimal(n) ==
    IF n < 10 THEN <<Digits[n + 1]>>
    ELSE Decimal(n \div 10) \o <<Digits[(n % 10) + 1]>>

RECURSIVE Pow10(_)
Pow10(k) == IF k = 0 THEN 1 ELSE 10 * Pow10(k - 1)

RECURSIVE SeqsUpTo(_, _)
SeqsUpTo(S, n) ==
    IF n = 0 THEN {<<>>}
    ELSE LET shorter == SeqsUpTo(S, n - 1)
         IN shorter \cup {Append(s, x) : s \in {t \in shorter : Len(t) = n - 1}, x \in S}

----------------------------------------------------------------------------
(* String literals of the source *)

TousDrapeaux == <<"T", "o", "u", "s", " ", "d", "r", "a", "p", "e", "a", "u", "x">>

ErreurHTTP == <<"E", "r", "r", "e", "u", "r", " ", "H", "T", "T", "P", ":", " ">>

UneErreurEstSurvenue ==
    <<"U", "n", "e", " ", "e", "r", "r", "e", "u", "r", " ",
      "e", "s", "t", " ", "s", "u", "r", "v", "e", "n", "u", "e">>

Pourcent == <<"%">>

ZeroPourcent == <<"0", "%">>

(* Messages the runtime puts in the errors it throws itself. *)
FailedToFetch == <<"F", "a", "i", "l", "e", "d", " ", "t", "o", " ", "f", "e", "t", "c", "h">>

UnexpectedToken ==
    <<"U", "n", "e", "x", "p", "e", "c", "t", "e", "d", " ", "t", "o", "k", "e", "n">>

(* Names every object literal inherits from Object.prototype. *)
ObjectPrototypeKeys ==
    { <<"c", "o", "n", "s", "t", "r", "u", "c", "t", "o", "r">>,
      <<"t", "o", "S", "t", "r", "i", "n", "g">>,
      <<"v", "a", "l", "u", "e", "O", "f">> }

----------------------------------------------------------------------------
(* The number input (lines 176-182): its value is "" or a valid            *)
(* floating-point number, which is what the browser hands to setUserId.    *)

InputChars == {"0", "1", "e"}

ValidMantissa(m) ==
    \/ IsDigits(m)
    \/ \E i \in 1..Len(m) :
          /\ m[i] = "."
          /\ (i = 1 \/ IsDigits(SubSeq(m, 1, i - 1)))
          /\ IsDigits(SubSeq(m, i + 1, Len(m)))

ValidExponent(x) ==
    \/ IsDigits(x)
    \/ (Len(x) > 1 /\ x[1] \in {"+", "-"} /\ IsDigits(Tail(x)))

ValidUnsigned(t) ==
    \/ ValidMantissa(t)
    \/ \E i \in 1..Len(t) :
          /\ t[i] \in {"e", "E"}
          /\ ValidMantissa(SubSeq(t, 1, i - 1))
          /\ ValidExponent(SubSeq(t, i + 1, Len(t)))

ValidFloatingPoint(s) ==
    /\ Len(s) > 0
    /\ IF s[1] = "-" THEN ValidUnsigned(Tail(s)) ELSE ValidUnsigned(s)

NumberInputValues ==
    {<<>>} \cup {s \in SeqsUpTo(InputChars, MaxInputLen) : ValidFloatingPoint(s)}

(* The number a valid floating-point string denotes, as mant * 10^exp10. *)
IndexOfAny(s, cs) ==
    IF \E i \in 1..Len(s) : s[i] \in cs
    THEN CHOOSE i \in 1..Len(s) : s[i] \in cs /\ \A j \in 1..(i - 1) : s[j] \notin cs
    ELSE 0

SignedDigitsVal(x) ==
    IF Len(x) > 0 /\ x[1] = "-" THEN 0 - DigitsVal(Tail(x))
    ELSE IF Len(x) > 0 /\ x[1] = "+" THEN DigitsVal(Tail(x))
    ELSE DigitsVal(x)

NumberValue(s) ==
    LET neg  == Len(s) > 0 /\ s[1] = "-"
        t    == IF neg THEN Tail(s) ELSE s
        e    == IndexOfAny(t, {"e", "E"})
        m    == IF e = 0 THEN t ELSE SubSeq(t, 1, e - 1)
        x    == IF e = 0 THEN <<>> ELSE SubSeq(t, e + 1, Len(t))
        p    == IndexOfAny(m, {"."})
        ip   == IF p = 0 THEN m ELSE SubSeq(m, 1, p - 1)
        fp   == IF p = 0 THEN <<>> ELSE SubSeq(m, p + 1, Len(m))
        mant == DigitsVal(ip \o fp)
    IN [mant |-> IF neg THEN 0 - mant ELSE mant,
        exp10 |-> SignedDigitsVal(x) - Len(fp)]

(* n = v for an integer n and a decimal v. *)
EqualsNumber(n, v) ==
    IF v.exp10 >= 0 THEN n = v.mant * Pow10(v.exp10)
    ELSE n * Pow10(0 - v.exp10) = v.mant

----------------------------------------------------------------------------
(* parseInt(string) with no radix: optional sign, then the longest run of  *)
(* decimal digits; NaN when there is none.  (Leading white space and a     *)
(* 0x prefix cannot occur in the value of a number input.)                 *)

RECURSIVE DigitPrefixLen(_)
DigitPrefixLen(s) ==
    IF Len(s) > 0 /\ IsDigit(s[1]) THEN 1 + DigitPrefixLen(Tail(s)) ELSE 0

parseInt(s) ==
    LET signed == Len(s) > 0 /\ s[1] \in {"+", "-"}
        t      == IF signed THEN Tail(s) ELSE s
        k      == DigitPrefixLen(t)
        v      == DigitsVal(SubSeq(t, 1, k))
    IN IF k = 0 THEN NaN
       ELSE Num(IF signed /\ s[1] = "-" THEN 0 - v ELSE v)

(* stat.user_id === parseInt(userId) *)
StrictEqualsNumber(n, p) == ~p.nan /\ n = p.val

----------------------------------------------------------------------------
(* handleSearch's three filters (lines 67-79) *)

Truthy(str) == Len(str) > 0

FilterByUserId(stats, uid) ==
    SelectSeq(stats, LAMBDA stat : StrictEqualsNumber(stat.user_id, parseInt(uid)))

FilterByType(stats, ty) ==
    SelectSeq(stats, LAMBDA stat : stat.type = ty)

FilterByDrapeau(stats, dr) ==
    SelectSeq(stats, LAMBDA stat : stat.data.drapeau = Some(dr))

Filtered(stats, uid, ty, dr) ==
    LET f1 == IF Truthy(uid) THEN FilterByUserId(stats, uid) ELSE stats
        f2 == IF ty # "" THEN FilterByType(f1, ty) ELSE f1
        f3 == IF Truthy(dr) THEN FilterByDrapeau(f2, dr) ELSE f2
    IN f3

----------------------------------------------------------------------------
(* getStatsByFlag (lines 97-108).  The accumulator object is the sequence  *)
(* of its own properties in creation order; a name it does not own is      *)
(* looked up on Object.prototype.                                          *)

FlagName(stat) ==
    IF stat.data.drapeau # None /\ Truthy(stat.data.drapeau[1])
    THEN stat.data.drapeau[1]
    ELSE TousDrapeaux

HasOwn(props, name) == \E i \in 1..Len(props) : props[i].key = name

PushTo(props, name, stat) ==
    [i \in 1..Len(props) |->
        IF props[i].key = name
        THEN [key |-> name, value |-> Append(props[i].value, stat)]
        ELSE props[i]]

GroupStepDropUnflagged(acc, stat) ==
    IF acc.threw THEN acc
    ELSE IF stat.data.drapeau = None THEN acc
    ELSE LET flagName == FlagName(stat)
         IN IF HasOwn(acc.props, flagName)
            THEN [threw |-> FALSE, props |-> PushTo(acc.props, flagName, stat)]
            ELSE IF flagName \in ObjectPrototypeKeys
            THEN [threw |-> TRUE, props |-> acc.props]
            ELSE [threw |-> FALSE,
                  props |-> Append(acc.props, [key |-> flagName, value |-> <<stat>>])]

GroupStep(acc, stat) ==
    IF acc.threw THEN acc
    ELSE LET flagName == FlagName(stat)
         IN IF HasOwn(acc.props, flagName)
            THEN [threw |-> FALSE, props |-> PushTo(acc.props, flagName, stat)]
            ELSE IF flagName \in ObjectPrototypeKeys
            THEN [threw |-> TRUE, props |-> acc.props]
            ELSE [threw |-> FALSE,
                  props |-> Append(acc.props, [key |-> flagName, value |-> <<stat>>])]

RECURSIVE Reduce(_, _)
Reduce(stats, acc) ==
    IF Len(stats) = 0 THEN acc ELSE Reduce(Tail(stats), GroupStep(acc, Head(stats)))

getStatsByFlag(stats) == Reduce(stats, [threw |-> FALSE, props |-> <<>>])

----------------------------------------------------------------------------
(* Object.entries (line 115): own keys that are array indices first, in    *)
(* ascending numeric order, then the other keys in creation order.         *)

(* An array index is the canonical decimal form of an integer below        *)
(* 2^32 - 1; every canonical numeral of at most nine digits is one, and    *)
(* no flag name of the model is longer.                                    *)
IsArrayIndex(name) ==
    /\ IsDigits(name)
    /\ (Len(name) = 1 \/ name[1] # "0")
    /\ Len(name) <= 9

RECURSIVE InsertByIndex(_, _)
InsertByIndex(sorted, p) ==
    IF Len(sorted) = 0 THEN <<p>>
    ELSE IF DigitsVal(p.key) < DigitsVal(Head(sorted).key) THEN <<p>> \o sorted
    ELSE <<Head(sorted)>> \o InsertByIndex(Tail(sorted), p)

RECURSIVE SortByIndex(_)
SortByIndex(props) ==
    IF Len(props) = 0 THEN <<>>
    ELSE InsertByIndex(SortByIndex(SubSeq(props, 1, Len(props) - 1)), props[Len(props)])

ObjectEntriesCreationOrder(props) == props

ObjectEntries(props) ==
    SortByIndex(SelectSeq(props, LAMBDA p : IsArrayIndex(p.key)))
        \o SelectSeq(props, LAMBDA p : ~IsArrayIndex(p.key))

----------------------------------------------------------------------------
(* getCountriesByCount (lines 111-123) *)

(* ((count / total) * 100).toFixed(1) + "%" *)
ToFixed1Percent(count, total) ==
    LET tenths == (2000 * count + total) \div (2 * total)
    IN Decimal(tenths \div 10) \o <<".">> \o Decimal(tenths % 10) \o Pourcent

CountryCount(p, total) ==
    [name |-> p.key,
     count |-> Len(p.value),
     percentage |-> IF total > 0 THEN ToFixed1Percent(Len(p.value), total)
                    ELSE ZeroPourcent]

CompareAscending(a, b) == a.count - b.count

(* (a, b) => b.count - a.count *)
Compare(a, b) == b.count - a.count

(* Array.prototype.sort is stable: an element goes before the first one    *)
(* the comparator puts it strictly in front of.                            *)
RECURSIVE InsertSorted(_, _)
InsertSorted(sorted, x) ==
    IF Len(sorted) = 0 THEN <<x>>
    ELSE IF Compare(x, Head(sorted)) < 0 THEN <<x>> \o sorted
    ELSE <<Head(sorted)>> \o InsertSorted(Tail(sorted), x)

RECURSIVE Sort(_)
Sort(list) ==
    IF Len(list) = 0 THEN <<>>
    ELSE InsertSorted(Sort(SubSeq(list, 1, Len(list) - 1)), list[Len(list)])

getCountriesByCount(stats) ==
    LET flagCounts == getStatsByFlag(stats)
        total      == Len(stats)
        entries    == ObjectEntries(flagCounts.props)
    IN IF flagCounts.threw THEN [threw |-> TRUE, list |-> <<>>]
       ELSE [threw |-> FALSE,
             list |-> Sort([i \in 1..Len(entries) |-> CountryCount(entries[i], total)])]

----------------------------------------------------------------------------
(* What the endpoint can answer (lines 43-51) *)

FR == <<"F", "R">>

UserIds == {1, 10}

RecordTypes == {"erreur"}

Stat(id, ty, uid, flag) ==
    [id |-> id, type |-> ty, user_id |-> uid, data |-> [drapeau |-> flag]]

(* The server gives every record of a body its own id. *)
WithIds(payloads) ==
    [i \in 1..Len(payloads) |->
        Stat(Decimal(i), payloads[i].type, payloads[i].user_id, payloads[i].flag)]

Payloads == [type : RecordTypes, user_id : UserIds, flag : {Some(FR)}]

Bodies == {WithIds(b) : b \in SeqsUpTo(Payloads, MaxRecords)}

Statuses == {200, 404, 500}

Rejected == [rejected |-> TRUE, status |-> 0, json |-> FALSE, data |-> Undefined]

NoResponse == [rejected |-> FALSE, status |-> 0, json |-> FALSE, data |-> Undefined]

(* json: the body parses as a JSON object; data: its `data` member, which  *)
(* is undefined when the object has none.                                  *)
Responses ==
    {Rejected}
    \cup {[rejected |-> FALSE, status |-> st, json |-> FALSE, data |-> Undefined] :
             st \in Statuses}
    \cup {[rejected |-> FALSE, status |-> 200, json |-> TRUE, data |-> d] :
             d \in {Undefined} \cup {Arr(b) : b \in Bodies}}

(* response.ok *)
ResponseOk(resp) == resp.status >= 200 /\ resp.status <= 299

----------------------------------------------------------------------------
(* Rendering (lines 125-250) *)

ErrorTruthy(err) == err # None /\ Truthy(err[1])

(* The branch App returns, or "crashed" when evaluating it throws:         *)
(* getCountriesByCount() at line 125, allStats.length at line 161.         *)
ViewOf(ld, err, stats, ranked) ==
    IF ranked.threw THEN "crashed"
    ELSE IF ld THEN "loading"
    ELSE IF ErrorTruthy(err) THEN "error"
    ELSE IF stats.kind # "array" THEN "crashed"
    ELSE "ready"

view == ViewOf(loading, error, allStats, countriesByCount)

RefreshButtonAlways == view \in {"loading", "error", "ready"}

(* onClick={handleRefresh}: lines 146 and 164 *)
RefreshButton == view \in {"error", "ready"}

(* the search form, lines 173-206 *)
SearchForm == view = "ready"

----------------------------------------------------------------------------
(* fetchData (lines 38-59), up to the first await and from its settling on *)

fetchDataBegin ==
    /\ Len(pending) < MaxPending
    /\ loading' = TRUE
    /\ error' = None
    /\ pending' = Append(pending, allStats)

Thrown(message) == [threw |-> TRUE, isError |-> TRUE, message |-> message, data |-> Undefined]

Returned(data) == [threw |-> FALSE, isError |-> FALSE, message |-> <<>>, data |-> data]

(* lines 43-52 *)
TryBlock(resp) ==
    IF resp.rejected THEN Thrown(FailedToFetch)
    ELSE IF ~ResponseOk(resp) THEN Thrown(ErreurHTTP \o Decimal(resp.status))
    ELSE IF ~resp.json THEN Thrown(UnexpectedToken)
    ELSE Returned(resp.data)

(* line 54 *)
CatchMessage(outcome) ==
    IF outcome.isError THEN outcome.message ELSE UneErreurEstSurvenue

AllStatsAfterClearing(outcome) ==
    IF outcome.threw THEN Arr(<<>>) ELSE outcome.data

(* allStats after lines 52-54 *)
AllStatsAfter(outcome) ==
    IF outcome.threw THEN allStats ELSE outcome.data

Remove(seq, i) == SubSeq(seq, 1, i - 1) \o SubSeq(seq, i + 1, Len(seq))

fetchDataSettle(i, resp) ==
    LET outcome == TryBlock(resp)
    IN /\ allStats' = AllStatsAfter(outcome)
       /\ error' = IF outcome.threw THEN Some(CatchMessage(outcome)) ELSE error
       /\ loading' = FALSE
       /\ pending' = Remove(pending, i)
       /\ startStats' = Some(pending[i])
       /\ lastResponse' = resp

(* startStats and lastResponse describe the call that settled in the last  *)
(* step; any other step forgets them.                                      *)
Forget == startStats' = None /\ lastResponse' = NoResponse

----------------------------------------------------------------------------
(* The component *)

Init ==
    /\ userId = <<>>
    /\ type = ""
    /\ drapeau = <<>>
    /\ filteredStats = <<>>
    /\ allStats = Arr(<<>>)
    /\ loading = TRUE
    /\ error = None
    /\ countriesByCount = getCountriesByCount(<<>>)
    /\ mounted = FALSE
    /\ pending = <<>>
    /\ startStats = None
    /\ lastOp = "init"
    /\ lastResponse = NoResponse

(* useEffect(() => { fetchData(); }, []) *)
Mount ==
    /\ ~mounted
    /\ mounted' = TRUE
    /\ fetchDataBegin
    /\ countriesByCount' = getCountriesByCount(filteredStats)
    /\ lastOp' = "mount"
    /\ Forget
    /\ UNCHANGED <<userId, type, drapeau, filteredStats, allStats>>

Settle ==
    /\ \E i \in 1..Len(pending) : \E resp \in Responses : fetchDataSettle(i, resp)
    /\ countriesByCount' = getCountriesByCount(filteredStats)
    /\ lastOp' = "settle"
    /\ UNCHANGED <<userId, type, drapeau, filteredStats, mounted>>

(* onChange of the number input, line 180 *)
SetUserId ==
    /\ SearchForm
    /\ \E v \in NumberInputValues : userId' = v
    /\ countriesByCount' = getCountriesByCount(filteredStats)
    /\ lastOp' = "edit"
    /\ Forget
    /\ UNCHANGED <<type, drapeau, filteredStats, allStats, loading, error,
                   mounted, pending>>

(* onChange of the select, line 190 *)
SetType ==
    /\ SearchForm
    /\ \E v \in {"erreur", "passer", "indice"} : type' = v
    /\ countriesByCount' = getCountriesByCount(filteredStats)
    /\ lastOp' = "edit"
    /\ Forget
    /\ UNCHANGED <<userId, drapeau, filteredStats, allStats, loading, error,
                   mounted, pending>>

handleSearch ==
    /\ SearchForm
    /\ filteredStats' = Filtered(allStats.items, userId, type, drapeau)
    /\ countriesByCount' = getCountriesByCount(filteredStats')
    /\ lastOp' = "search"
    /\ Forget
    /\ UNCHANGED <<userId, type, drapeau, allStats, loading, error, mounted, pending>>

handleResetKeepingResults ==
    /\ SearchForm
    /\ userId' = <<>>
    /\ type' = ""
    /\ drapeau' = <<>>
    /\ countriesByCount' = getCountriesByCount(filteredStats)
    /\ lastOp' = "reset"
    /\ Forget
    /\ UNCHANGED <<filteredStats, allStats, loading, error, mounted, pending>>

handleReset ==
    /\ SearchForm
    /\ userId' = <<>>
    /\ type' = ""
    /\ drapeau' = <<>>
    /\ filteredStats' = <<>>
    /\ countriesByCount' = getCountriesByCount(filteredStats')
    /\ lastOp' = "reset"
    /\ Forget
    /\ UNCHANGED <<allStats, loading, error, mounted, pending>>

handleRefreshKeepingResults ==
    /\ RefreshButton
    /\ fetchDataBegin
    /\ countriesByCount' = getCountriesByCount(filteredStats)
    /\ lastOp' = "refresh"
    /\ Forget
    /\ UNCHANGED <<userId, type, drapeau, filteredStats, allStats, mounted>>

handleRefresh ==
    /\ RefreshButton
    /\ fetchDataBegin
    /\ filteredStats' = <<>>
    /\ countriesByCount' = getCountriesByCount(filteredStats')
    /\ lastOp' = "refresh"
    /\ Forget
    /\ UNCHANGED <<userId, type, drapeau, allStats, mounted>>

Next ==
    \/ Mount
    \/ Settle
    \/ SetUserId
    \/ SetType
    \/ handleSearch
    \/ handleReset
    \/ handleRefresh

Spec == Init /\ [][Next]_vars

----------------------------------------------------------------------------
(* The ranking on its own: the component right after a successful load of  *)
(* any body of up to MaxRankRecords records over a wide choice of flags,   *)
(* then searched with no criterion (so that filteredStats is the body) or  *)
(* reset.                                                                  *)

DE == <<"D", "E">>

RankFlags ==
    {None, Some(<<>>), Some(FR), Some(DE), Some(<<"1">>), Some(<<"2">>),
     Some(<<"c", "o", "n", "s", "t", "r", "u", "c", "t", "o", "r">>)}

RankPayloads == [type : {"erreur"}, user_id : {1}, flag : RankFlags]

RankBodies == {WithIds(b) : b \in SeqsUpTo(RankPayloads, MaxRankRecords)}

InitRank ==
    /\ userId = <<>>
    /\ type = ""
    /\ drapeau = <<>>
    /\ filteredStats = <<>>
    /\ allStats \in {Arr(b) : b \in RankBodies}
    /\ loading = FALSE
    /\ error = None
    /\ countriesByCount = getCountriesByCount(<<>>)
    /\ mounted = TRUE
    /\ pending = <<>>
    /\ startStats = Some(Arr(<<>>))
    /\ lastOp = "settle"
    /\ lastResponse = [rejected |-> FALSE, status |-> 200, json |-> TRUE, data |-> allStats]

NextRank ==
    \/ handleSearch
    \/ handleReset

SpecRank == InitRank /\ [][NextRank]_vars

----------------------------------------------------------------------------
(* Properties *)

RECURSIVE SumCounts(_)
SumCounts(list) ==
    IF Len(list) = 0 THEN 0 ELSE Head(list).count + SumCounts(Tail(list))

Unflagged(stat) == stat.data.drapeau = None \/ stat.data.drapeau = Some(<<>>)

NumberOf(stats, Test(_)) == Cardinality({i \in 1..Len(stats) : Test(stats[i])})

(* Position in filteredStats of the first record that falls in bucket name. *)
FirstOccurrence(name) ==
    CHOOSE k \in 1..Len(filteredStats) :
        /\ FlagName(filteredStats[k]) = name
        /\ \A h \in 1..(k - 1) : FlagName(filteredStats[h]) # name

(* The record satisfies every non-empty criterion, the identifier being    *)
(* the number the userId field denotes.                                    *)
SatisfiesCriteria(stat) ==
    /\ (userId # <<>> => EqualsNumber(stat.user_id, NumberValue(userId)))
    /\ (type # "" => stat.type = type)
    /\ (drapeau # <<>> => stat.data.drapeau = Some(drapeau))

(* C1: a search sets filteredStats to exactly the records of allStats, in  *)
(* their original order, that satisfy every non-empty criterion (user_id   *)
(* equal to the identifier, type equal to the type criterion, data.drapeau *)
(* equal to the flag criterion).                                           *)
C1_SearchSelectsMatching ==
    lastOp = "search" => filteredStats = SelectSeq(allStats.items, SatisfiesCriteria)

C3_NonIncreasing ==
    ~countriesByCount.threw =>
        \A i \in 1..(Len(countriesByCount.list) - 1) :
            countriesByCount.list[i].count >= countriesByCount.list[i + 1].count

C3_Witness ==
    /\ lastOp = "search"
    /\ ~countriesByCount.threw
    /\ Len(countriesByCount.list) >= 2
    /\ countriesByCount.list[1].count > countriesByCount.list[2].count
    /\ FlagName(filteredStats[1]) = countriesByCount.list[2].name

(* C8 as stated: buckets with equal counts appear in the order of the      *)
(* first occurrence of their flag value in filteredStats, for every flag   *)
(* value.                                                                  *)
C8_TiesInFirstOccurrenceOrder ==
    ~countriesByCount.threw =>
        \A i, j \in 1..Len(countriesByCount.list) :
            (i < j /\ countriesByCount.list[i].count = countriesByCount.list[j].count)
                => FirstOccurrence(countriesByCount.list[i].name)
                       < FirstOccurrence(countriesByCount.list[j].name)

(* The order of the keys of the grouping object. *)
KeyBefore(a, b) ==
    IF IsArrayIndex(a) /\ IsArrayIndex(b) THEN DigitsVal(a) < DigitsVal(b)
    ELSE IF IsArrayIndex(a) THEN TRUE
    ELSE IF IsArrayIndex(b) THEN FALSE
    ELSE FirstOccurrence(a) < FirstOccurrence(b)

(* C8 amended: buckets with equal counts appear in the key order of the    *)
(* grouping object: flag names that are array indices (canonical decimal   *)
(* numerals) first, in ascending numeric order, then the other names in    *)
(* the order of their first occurrence in filteredStats.                   *)
C8_TiesInKeyOrder ==
    ~countriesByCount.threw =>
        \A i, j \in 1..Len(countriesByCount.list) :
            (i < j /\ countriesByCount.list[i].count = countriesByCount.list[j].count)
                => KeyBefore(countriesByCount.list[i].name, countriesByCount.list[j].name)

C8_Witness ==
    /\ lastOp = "search"
    /\ ~countriesByCount.threw
    /\ \E i, j \in 1..Len(countriesByCount.list) :
          /\ i < j
          /\ countriesByCount.list[i].count = countriesByCount.list[j].count
          /\ countriesByCount.list[i].count = 2
          /\ FirstOccurrence(countriesByCount.list[i].name)
                 > FirstOccurrence(countriesByCount.list[j].name)

RenderStates == {"loading", "error", "ready"}

FetchThrew(resp) == resp.rejected \/ ~ResponseOk(resp) \/ ~resp.json

(* C4: the component is always in exactly one of loading, error and ready, *)
(* and the only transitions are loading to ready on fetch success, loading *)
(* to error on fetch failure, and error or ready to loading by refresh.    *)
C4_RenderStates ==
    /\ [](view \in RenderStates)
    /\ [][view' # view =>
            \/ view = "loading" /\ view' = "ready"
                 /\ lastOp' = "settle" /\ ~FetchThrew(lastResponse')
            \/ view = "loading" /\ view' = "error"
                 /\ lastOp' = "settle" /\ FetchThrew(lastResponse')
            \/ view \in {"error", "ready"} /\ view' = "loading" /\ lastOp' = "refresh"]_vars

Contains(str, sub) ==
    \E i \in 1..(Len(str) - Len(sub) + 1) : SubSeq(str, i, i + Len(sub) - 1) = sub

TransportFailed(resp) == resp.rejected

StatusFailed(resp) == ~resp.rejected /\ ~ResponseOk(resp)

NotAnEnvelope(resp) ==
    ~resp.rejected /\ ResponseOk(resp) /\ (~resp.json \/ resp.data.kind # "array")

(* C5: a transport failure, a failure status (the message then contains    *)
(* the status code) and a body that is not an envelope {data: [...]} all   *)
(* end in the error view, never in ready, and never store a value that is  *)
(* not a sequence of records in allStats.                                  *)
C5_FailuresBecomeErrorView ==
    (lastOp = "settle" /\ (TransportFailed(lastResponse) \/ StatusFailed(lastResponse)
                             \/ NotAnEnvelope(lastResponse)))
        => /\ view = "error"
           /\ allStats.kind = "array"
           /\ StatusFailed(lastResponse) => Contains(error[1], Decimal(lastResponse.status))

(* C6: a reset leaves filteredStats empty, so no ranked row is shown,      *)
(* clears the three criteria, leaves allStats, loading and error unchanged *)
(* and issues no fetch.                                                    *)
C6_ResetClears ==
    [][lastOp' = "reset" =>
          /\ filteredStats' = <<>>
          /\ countriesByCount' = [threw |-> FALSE, list |-> <<>>]
          /\ userId' = <<>> /\ type' = "" /\ drapeau' = <<>>
          /\ UNCHANGED <<allStats, loading, error, pending>>]_vars

C6_Witness ==
    /\ lastOp = "reset"
    /\ Len(allStats.items) = MaxRecords
    /\ filteredStats = <<>>
    /\ userId = <<>>

(* C7: at most one fetch is in flight at any time; a fetch is started only *)
(* by the mount or by a refresh, and no refresh control is rendered while  *)
(* a fetch is pending.                                                     *)
C7_OneFetchInFlight ==
    /\ [](Len(pending) <= 1 /\ (Len(pending) > 0 => ~RefreshButton))
    /\ [][Len(pending') > Len(pending) => lastOp' \in {"mount", "refresh"}]_vars

C7_Witness ==
    /\ lastOp = "refresh"
    /\ Len(pending) = 1
    /\ view = "loading"

(* C9: a fetch that ends in a transport failure or a failure status leaves *)
(* allStats at the value it had when that fetch started; of the            *)
(* component's state only error and loading change.                        *)
C9_FailedFetchKeepsRecords ==
    [][(lastOp' = "settle" /\ (TransportFailed(lastResponse') \/ StatusFailed(lastResponse')))
          => /\ allStats' = startStats'[1]
             /\ UNCHANGED <<allStats, filteredStats, userId, type, drapeau>>]_vars

C9_Witness ==
    /\ lastOp = "settle"
    /\ StatusFailed(lastResponse)
    /\ Len(allStats.items) = MaxRecords
    /\ view = "error"

(* C10: every record in filteredStats is a record of the current allStats. *)
C10_FilteredWithinAll ==
    \A i \in 1..Len(filteredStats) :
        /\ allStats.kind = "array"
        /\ \E j \in 1..Len(allStats.items) : allStats.items[j] = filteredStats[i]

C10_Witness ==
    /\ lastOp = "settle"
    /\ allStats.kind = "array"
    /\ startStats # None
    /\ startStats[1].items # <<>>
    /\ allStats.items # <<>>
    /\ \A j \in 1..Len(allStats.items) :
          \A k \in 1..Len(startStats[1].items) : allStats.items[j] # startStats[1].items[k]

====
